---- MODULE Spec2Model ----
(***************************************************************************)
(* Model of MeetingIntelligence (modules/meeting_intelligence.py): five    *)
(* coroutines sharing one SQLAlchemy session.  The session is modelled by  *)
(* the committed Meeting rows (meetings) and the rows added to the session *)
(* but not yet committed (pending).  A commit persists everything the      *)
(* session holds; a failed commit rolls the session back.  Each coroutine  *)
(* is split at its await: the part before the await is one action, the     *)
(* part after it another.  sync_calendar_events has no await and is one    *)
(* action.  The collaborators (calendar, store, HTTP, LLM client) may fail *)
(* at every call; the failure point is an input of the action.             *)
(***************************************************************************)
EXTENDS Integers, Sequences, FiniteSets, TLC

\* ---- bounds ----
MaxRows == 2        \* Meeting rows ever created
MaxEvents == 2      \* events in one calendar response
MaxCalls == 3       \* calls of the awaiting methods a caller starts

\* ---- value domains ----
None == "None"                       \* Python None
Accounts == {1}
RecordingIds == {"r1"}
Bodies == {None, "", "t1", "t2"}     \* data.get('transcript', '') of a 200 response
Statuses == {200, 404}
Summaries == {"s1"}
Contents == {"c1"}
Fallback == "Unable to generate follow-up email"
MeetingIds == 1..MaxRows

\* events.get('items', []): the calendar's first n events, in startTime order;
\* the i-th has id i, and is valid when Meeting(...) can be built from it
EventLists ==
    UNION {{[i \in 1..n |-> [id |-> i, valid |-> v[i]]] : v \in [1..n -> BOOLEAN]} :
           n \in 0..MaxEvents}

VARIABLES meetings, pending, nextId, fathom_api_key,
          prepCall, importCall, extractCall, followupCall,
          last, aborted, calls

vars == <<meetings, pending, nextId, fathom_api_key,
          prepCall, importCall, extractCall, followupCall, last, aborted, calls>>

Idle == [mid |-> 0]
NoRow == [id |-> 0, account_id |-> 0, event_id |-> 0, transcript |-> None,
          fathom_id |-> None, action_items |-> None, prep_summary |-> None]

\* rows the session's queries see: committed rows and (autoflushed) added rows
Visible == meetings \cup pending

\* Meeting(...) built from one calendar event
BuildMeeting(account_id, event, id) ==
    [id |-> id, account_id |-> account_id, event_id |-> event.id,
     transcript |-> None, fathom_id |-> None, action_items |-> None,
     prep_summary |-> None]

\* number of events processed before the first one whose construction raises
RECURSIVE ValidPrefix(_)
ValidPrefix(events) ==
    IF events = <<>> THEN 0
    ELSE IF ~Head(events).valid THEN 0
    ELSE 1 + ValidPrefix(Tail(events))

\* the results dict of sync_calendar_events
SyncResults_perEvent(k, n, failed) ==
    [synced |-> k, errors |-> IF failed THEN n - k ELSE 0]

SyncResults(k, n, failed) ==
    [synced |-> k, errors |-> IF failed THEN 1 ELSE 0]

\* db.query(Meeting).filter(Meeting.id == meeting_id).first()
QueryMeeting_anyRow(meeting_id) ==
    IF Visible = {} THEN NoRow ELSE CHOOSE r \in Visible : TRUE

QueryMeeting(meeting_id) ==
    LET S == {r \in Visible : r.id = meeting_id}
    IN IF S = {} THEN NoRow ELSE CHOOSE r \in S : TRUE

\* "not meeting.transcript": None and the empty string are falsy
NoTranscript_onlyNone(t) == t = None

NoTranscript(t) == t \in {None, ""}

\* "if not self.fathom_api_key"
KeyConfigured_always(key) == TRUE

KeyConfigured(key) == key # ""

\* "response.status_code == 200"
StatusOk_not500(status) == status # 500

StatusOk(status) == status = 200

\* self.llm.extract_action_items(transcript)
ExtractActionItems(t) == <<"item", t>>

\* str(action_items)
PyStr(x) == <<"str", x>>

\* attribute assignment on the Meeting object held by a coroutine
SetField(rows, id, f, v) ==
    {IF r.id = id THEN [r EXCEPT ![f] = v] ELSE r : r \in rows}

\* record of the call that returned last: its inputs and what it did
Returned(op, mid, exc, status, found, t, n, ret, raised, llm, sent, m2, p2) ==
    [op |-> op, mid |-> mid, exc |-> exc, status |-> status, found |-> found,
     t |-> t, n |-> n, ret |-> ret, raised |-> raised, llm |-> llm,
     sent |-> sent, wrote |-> m2 # meetings, flushed |-> p2 # pending,
     added |-> Cardinality(m2) - Cardinality(meetings)]

Init ==
    /\ meetings = {}
    /\ pending = {}
    /\ nextId = 1
    /\ fathom_api_key \in {"", "key"}
    /\ prepCall = Idle
    /\ importCall = Idle
    /\ extractCall = Idle
    /\ followupCall = Idle
    /\ aborted = {}
    /\ calls = 0
    /\ last = [op |-> "init", mid |-> 0, exc |-> "none", status |-> 0,
               found |-> FALSE, t |-> None, n |-> 0, ret |-> None,
               raised |-> FALSE, llm |-> FALSE, sent |-> FALSE,
               wrote |-> FALSE, flushed |-> FALSE, added |-> 0]

\* ---- sync_calendar_events ----
sync_calendar_events(account_id, events, exc) ==
    /\ exc \in {"none", "provider", "commit"}
    /\ exc = "provider" => events = <<>>
    /\ exc = "commit" => ValidPrefix(events) = Len(events)
    /\ nextId + Len(events) - 1 <= MaxRows
    /\ LET k == IF exc = "provider" THEN 0 ELSE ValidPrefix(events)
           new == {BuildMeeting(account_id, events[i], nextId + i - 1) : i \in 1..k}
           at == IF exc = "provider" THEN "provider"
                 ELSE IF k < Len(events) THEN "event"
                 ELSE exc
           m2 == IF at = "none" THEN meetings \cup pending \cup new ELSE meetings
           p2 == IF at = "event" THEN pending \cup new
                 ELSE IF at = "provider" THEN pending
                 ELSE {}
       IN /\ meetings' = m2
          /\ pending' = p2
          /\ nextId' = nextId + k
          /\ aborted' = IF at = "none" THEN aborted
                        ELSE aborted \cup {r.id : r \in new}
          /\ last' = Returned("sync", account_id, at, 0, FALSE, None, Len(events),
                              SyncResults(k, Len(events), at # "none"), FALSE,
                              FALSE, FALSE, m2, p2)
    /\ UNCHANGED <<fathom_api_key, prepCall, importCall, extractCall, followupCall, calls>>

\* ---- generate_meeting_prep ----
prep_start(meeting_id, exc) ==
    /\ prepCall = Idle
    /\ calls < MaxCalls
    /\ calls' = calls + 1
    /\ exc \in {"none", "query", "try"}
    /\ LET meeting == QueryMeeting(meeting_id)
           found == \E r \in Visible : r.id = meeting_id
       IN IF exc = "query"
          THEN /\ last' = Returned("prep", meeting_id, exc, 0, found, None, 0,
                                   None, TRUE, FALSE, FALSE, meetings, pending)
               /\ UNCHANGED prepCall
          ELSE IF meeting.id = 0 \/ exc = "try"
          THEN /\ last' = Returned("prep", meeting_id, exc, 0, found, None, 0,
                                   "", FALSE, FALSE, FALSE, meetings, pending)
               /\ UNCHANGED prepCall
          ELSE /\ prepCall' = [mid |-> meeting_id, obj |-> meeting.id, found |-> found]
               /\ UNCHANGED last
    /\ UNCHANGED <<meetings, pending, nextId, fathom_api_key, importCall,
                   extractCall, followupCall, aborted>>

prep_finish(summary, exc) ==
    /\ prepCall # Idle
    /\ exc \in {"none", "llm", "commit"}
    /\ LET m2 == IF exc = "none"
                 THEN SetField(meetings \cup pending, prepCall.obj, "prep_summary", summary)
                 ELSE meetings
           p2 == IF exc = "llm" THEN pending ELSE {}
       IN /\ meetings' = m2
          /\ pending' = p2
          /\ last' = Returned("prep", prepCall.mid, exc, 0, prepCall.found, None, 0,
                              IF exc = "none" THEN summary ELSE "", FALSE,
                              TRUE, FALSE, m2, p2)
    /\ prepCall' = Idle
    /\ UNCHANGED <<nextId, fathom_api_key, importCall, extractCall, followupCall, aborted, calls>>

\* ---- import_fathom_transcript ----
import_start(meeting_id, fathom_recording_id) ==
    /\ importCall = Idle
    /\ calls < MaxCalls
    /\ calls' = calls + 1
    /\ IF ~KeyConfigured(fathom_api_key)
       THEN /\ last' = Returned("import", meeting_id, "none", 0, FALSE, None, 0,
                                None, FALSE, FALSE, FALSE, meetings, pending)
            /\ UNCHANGED importCall
       ELSE /\ importCall' = [mid |-> meeting_id, rid |-> fathom_recording_id]
            /\ UNCHANGED last
    /\ UNCHANGED <<meetings, pending, nextId, fathom_api_key, prepCall,
                   extractCall, followupCall, aborted>>

import_finish(status, transcript, exc) ==
    /\ importCall # Idle
    /\ exc \in {"none", "http", "json", "query", "commit"}
    /\ exc = "http" <=> status = 0
    /\ status # 200 => transcript = "" /\ exc \in {"none", "http"}
    /\ LET meeting == QueryMeeting(importCall.mid)
           ok == exc # "http" /\ StatusOk(status)
           stores == ok /\ exc \in {"none", "commit"} /\ meeting.id # 0
           m2 == IF stores /\ exc = "none"
                 THEN SetField(SetField(meetings \cup pending, meeting.id,
                                        "transcript", transcript),
                               meeting.id, "fathom_id", importCall.rid)
                 ELSE meetings
           p2 == IF stores THEN {} ELSE pending
       IN /\ exc = "commit" => stores
          /\ meetings' = m2
          /\ pending' = p2
          /\ last' = Returned("import", importCall.mid, exc, status, FALSE, None, 0,
                              IF ok /\ exc = "none" THEN transcript ELSE None,
                              FALSE, FALSE, TRUE, m2, p2)
    /\ importCall' = Idle
    /\ UNCHANGED <<nextId, fathom_api_key, prepCall, extractCall, followupCall, aborted, calls>>

\* ---- extract_action_items_from_meeting ----
extract_start(meeting_id, exc) ==
    /\ extractCall = Idle
    /\ calls < MaxCalls
    /\ calls' = calls + 1
    /\ exc \in {"none", "query"}
    /\ LET meeting == QueryMeeting(meeting_id)
           found == \E r \in Visible : r.id = meeting_id
           held == IF found THEN (CHOOSE r \in Visible : r.id = meeting_id).transcript
                   ELSE None
       IN IF exc = "query"
          THEN /\ last' = Returned("extract", meeting_id, exc, 0, found, held, 0,
                                   None, TRUE, FALSE, FALSE, meetings, pending)
               /\ UNCHANGED extractCall
          ELSE IF meeting.id = 0 \/ NoTranscript(meeting.transcript)
          THEN /\ last' = Returned("extract", meeting_id, exc, 0, found, held, 0,
                                   <<>>, FALSE, FALSE, FALSE, meetings, pending)
               /\ UNCHANGED extractCall
          ELSE /\ extractCall' = [mid |-> meeting_id, obj |-> meeting.id,
                                  arg |-> meeting.transcript,
                                  found |-> found, held |-> held]
               /\ UNCHANGED last
    /\ UNCHANGED <<meetings, pending, nextId, fathom_api_key, prepCall,
                   importCall, followupCall, aborted>>

extract_finish(exc) ==
    /\ extractCall # Idle
    /\ exc \in {"none", "llm", "commit"}
    /\ LET action_items == ExtractActionItems(extractCall.arg)
           m2 == IF exc = "none"
                 THEN SetField(meetings \cup pending, extractCall.obj,
                               "action_items", PyStr(action_items))
                 ELSE meetings
           p2 == IF exc = "llm" THEN pending ELSE {}
       IN /\ meetings' = m2
          /\ pending' = p2
          /\ last' = Returned("extract", extractCall.mid, exc, 0, extractCall.found,
                              extractCall.held, 0,
                              IF exc = "none" THEN action_items ELSE None,
                              exc # "none", TRUE, FALSE, m2, p2)
    /\ extractCall' = Idle
    /\ UNCHANGED <<nextId, fathom_api_key, prepCall, importCall, followupCall, aborted, calls>>

\* ---- generate_followup_email ----
followup_start(meeting_id, exc) ==
    /\ followupCall = Idle
    /\ calls < MaxCalls
    /\ calls' = calls + 1
    /\ exc \in {"none", "query", "attr"}
    /\ LET meeting == QueryMeeting(meeting_id)
           found == \E r \in Visible : r.id = meeting_id
       IN /\ exc = "attr" => meeting.id # 0
          /\ IF exc = "query" \/ (meeting.id # 0 /\ exc = "attr")
             THEN /\ last' = Returned("followup", meeting_id, exc, 0, found, None, 0,
                                      None, TRUE, FALSE, FALSE, meetings, pending)
                  /\ UNCHANGED followupCall
             ELSE IF meeting.id = 0
             THEN /\ last' = Returned("followup", meeting_id, exc, 0, found, None, 0,
                                      "", FALSE, FALSE, FALSE, meetings, pending)
                  /\ UNCHANGED followupCall
             ELSE /\ followupCall' = [mid |-> meeting_id, found |-> found]
                  /\ UNCHANGED last
    /\ UNCHANGED <<meetings, pending, nextId, fathom_api_key, prepCall,
                   importCall, extractCall, aborted>>

followup_finish(status, content, exc) ==
    /\ followupCall # Idle
    /\ exc \in {"none", "http", "json"}
    /\ exc = "http" <=> status = 0
    /\ exc = "json" => status = 200
    /\ last' = Returned("followup", followupCall.mid, exc, status, followupCall.found,
                        content, 0,
                        IF exc = "none" /\ StatusOk(status) THEN content ELSE Fallback,
                        FALSE, TRUE, TRUE, meetings, pending)
    /\ followupCall' = Idle
    /\ UNCHANGED <<meetings, pending, nextId, fathom_api_key, prepCall,
                   importCall, extractCall, aborted, calls>>

Next ==
    \/ \E a \in Accounts, ev \in EventLists, x \in {"none", "provider", "commit"} :
          sync_calendar_events(a, ev, x)
    \/ \E id \in MeetingIds, x \in {"none", "query", "try"} : prep_start(id, x)
    \/ \E s \in Summaries, x \in {"none", "llm", "commit"} : prep_finish(s, x)
    \/ \E id \in MeetingIds, rid \in RecordingIds : import_start(id, rid)
    \/ \E st \in Statuses \cup {0}, b \in Bodies,
          x \in {"none", "http", "json", "query", "commit"} : import_finish(st, b, x)
    \/ \E id \in MeetingIds, x \in {"none", "query"} : extract_start(id, x)
    \/ \E x \in {"none", "llm", "commit"} : extract_finish(x)
    \/ \E id \in MeetingIds, x \in {"none", "query", "attr"} : followup_start(id, x)
    \/ \E st \in Statuses \cup {0}, c \in Contents, x \in {"none", "http", "json"} :
          followup_finish(st, c, x)

Spec == Init /\ [][Next]_vars

\* a caller that only syncs calendars and generates meeting preps
NextSync ==
    \/ \E a \in Accounts, ev \in EventLists, x \in {"none", "provider", "commit"} :
          sync_calendar_events(a, ev, x)
    \/ \E id \in MeetingIds, x \in {"none", "query", "try"} : prep_start(id, x)
    \/ \E s \in Summaries, x \in {"none", "llm", "commit"} : prep_finish(s, x)

SpecSync == Init /\ [][NextSync]_vars

\* a caller that syncs, imports transcripts and extracts action items
NextTranscript ==
    \/ \E a \in Accounts, ev \in EventLists, x \in {"none", "provider", "commit"} :
          sync_calendar_events(a, ev, x)
    \/ \E id \in MeetingIds, rid \in RecordingIds : import_start(id, rid)
    \/ \E st \in Statuses \cup {0}, b \in Bodies,
          x \in {"none", "http", "json", "query", "commit"} : import_finish(st, b, x)
    \/ \E id \in MeetingIds, x \in {"none", "query"} : extract_start(id, x)
    \/ \E x \in {"none", "llm", "commit"} : extract_finish(x)

SpecTranscript == Init /\ [][NextTranscript]_vars

\* a caller that syncs and composes follow-up emails
NextFollowup ==
    \/ \E a \in Accounts, ev \in EventLists, x \in {"none", "provider", "commit"} :
          sync_calendar_events(a, ev, x)
    \/ \E id \in MeetingIds, x \in {"none", "query", "attr"} : followup_start(id, x)
    \/ \E st \in Statuses \cup {0}, c \in Contents, x \in {"none", "http", "json"} :
          followup_finish(st, c, x)

SpecFollowup == Init /\ [][NextFollowup]_vars

\* ---------------------------------------------------------------------------
\* Claims
\* ---------------------------------------------------------------------------

\* C1: a sync of N valid events whose commit succeeds returns synced = N and
\* errors = 0, and the Meeting table holds exactly N more rows than before.
C1_SyncAddsExactlyN ==
    (last.op = "sync" /\ last.exc = "none") =>
        /\ last.ret = [synced |-> last.n, errors |-> 0]
        /\ last.added = last.n

\* C2: a sync that raises at the provider call, at some event or at the commit
\* returns errors = 1 whatever the number of events processed, and does not raise.
C2_AbortedSyncReportsOneError ==
    (last.op = "sync" /\ last.exc # "none") =>
        /\ ~last.raised
        /\ last.ret.errors = 1

C2_Witness ==
    /\ last.op = "sync"
    /\ last.exc = "event"
    /\ last.n = 2
    /\ last.ret.synced = 1

\* C3: no row added by a sync that aborted on an exception is ever persisted.
C3_AbortedRowsNeverPersisted ==
    \A r \in meetings : r.id \notin aborted

\* C4: whatever collaborator fails at whatever step, the call returns its
\* empty/default value and no exception reaches the caller.
C4_FailuresReturnDefault ==
    (last.exc # "none") =>
        /\ ~last.raised
        /\ last.op = "sync" => last.ret.errors = 1
        /\ last.op = "prep" => last.ret = ""
        /\ last.op = "import" => last.ret = None
        /\ last.op = "extract" => last.ret = <<>>
        /\ last.op = "followup" => last.ret = Fallback

\* C5: the store never holds two Meeting rows with the same account id and the
\* same external event id.
C5_OneRowPerEvent ==
    \A r1, r2 \in meetings :
        (r1.account_id = r2.account_id /\ r1.event_id = r2.event_id) => r1 = r2

\* C6: an import that ends without the credential, on a non-200 response or on
\* an exception returns None and leaves the stored Meetings as they were; without
\* the credential no request is sent.
C6_FailedImportWritesNothing ==
    (last.op = "import" /\ (fathom_api_key = "" \/ last.exc # "none" \/ last.status # 200)) =>
        /\ ~last.raised
        /\ last.ret = None
        /\ ~last.wrote
        /\ fathom_api_key = "" => ~last.sent

C6_Witness ==
    /\ last.op = "import"
    /\ last.status = 404
    /\ \E r \in meetings : r.id = last.mid /\ r.transcript = "t1" /\ r.fathom_id = "r1"

\* C7: extraction for a meeting id that matches no Meeting, or for a Meeting whose
\* transcript is None or empty, returns the empty list, does not call the LLM
\* client and changes neither the store nor the session.
C7_NoTranscriptNoExtraction ==
    (last.op = "extract" /\ last.exc # "query" /\ (~last.found \/ last.t \in {None, ""})) =>
        /\ ~last.raised
        /\ ~last.llm
        /\ ~last.wrote
        /\ ~last.flushed
        /\ last.ret = <<>>

C7_Witness ==
    /\ last.op = "extract"
    /\ last.found
    /\ last.t = ""
    /\ last.ret = <<>>

\* C8: prep generation for a meeting id that matches no Meeting returns "", does
\* not call the LLM client and changes neither the store nor the session.
C8_PrepOfMissingMeeting ==
    (last.op = "prep" /\ last.exc # "query" /\ ~last.found) =>
        /\ ~last.raised
        /\ ~last.llm
        /\ ~last.wrote
        /\ ~last.flushed
        /\ last.ret = ""

C8_Witness ==
    /\ last.op = "prep"
    /\ ~last.found
    /\ last.exc = "none"
    /\ meetings # {}
    /\ last.ret = ""

\* C9: for an existing Meeting the follow-up call returns the first choice's
\* content on a 200 response, the fallback string on every other status and on
\* every exception, and never modifies the store.
C9_FollowupContentOrFallback ==
    (last.op = "followup" /\ last.found) =>
        /\ ~last.raised
        /\ ~last.wrote
        /\ ~last.flushed
        /\ last.ret = IF last.status = 200 /\ last.exc = "none" THEN last.t ELSE Fallback

\* C10: once an extraction has returned and no import is in flight, the stored
\* action items of its Meeting are those extracted from the transcript the
\* Meeting holds.
C10_ItemsMatchTranscript ==
    (last.op = "extract" /\ last.exc = "none" /\ last.llm /\ importCall = Idle) =>
        \A r \in meetings :
            r.id = last.mid => r.action_items = PyStr(ExtractActionItems(r.transcript))
====
